---------------------------- MODULE Spec2Model ----------------------------
(***************************************************************************)
(* A model of ci/ci.py (the CI driver: branch lookup, branch-to-channel    *)
(* configuration, command dispatch, external calls) and of                 *)
(* engine/resource/src/waf_resource.py (the 'barchive' task generator).    *)
(*                                                                         *)
(* Branch names are sequences of one-character strings, so that strip()    *)
(* and startswith() are computed character by character. Channels,         *)
(* artifact selectors and platforms are plain strings; Python's None is    *)
(* the reserved value NONE (NoBranch for a branch).                        *)
(***************************************************************************)
EXTENDS Integers, Sequences, FiniteSets, TLC

VARIABLES
    \* ---- ci.py main(): one run of the driver
    args,        \* the parsed command line (argparse namespace) and the host system
    git,         \* what the two git rev-parse commands print in this checkout
    pc,          \* position of main: get_branch, get_branch_head, configure, dispatch, call, done, exited
    branch,      \* main's local 'branch'
    config,      \* the six locals main sets from the branch
    idx,         \* position of the for loop in args.commands (0 before the loop)
    pending,     \* external calls the current handler has still to make
    spawned,     \* every external process started so far, with its exit status
    exit_code,   \* the exit status of the python process
    error,       \* the exception or message the run stopped with
    printed,     \* the messages main's own dispatch printed
    \* ---- the branch configuration as a function of its two inputs
    r_branch, r_override, r_config,
    \* ---- waf_resource.py: one task generator with the 'barchive' feature
    tg,          \* the task generator: source_root, resource_name, use_compression, tasks
    tg_pc,       \* the method of the generator that runs next: before, core, after, applied
    tg_errors    \* what Logs.error was called with

ci_vars == <<args, git, pc, branch, config, idx, pending, spawned, exit_code, error, printed>>
r_vars  == <<r_branch, r_override, r_config>>
tg_vars == <<tg, tg_pc, tg_errors>>
vars    == <<ci_vars, r_vars, tg_vars>>

---------------------------------------------------------------------------
(* Python values *)

NONE == "<None>"
NoBranch == <<"<None>">>

\* truth value of an optional string: None and '' are false
Truthy(x) == x # NONE /\ x # ""

\* a or b
PyOr(a, b) == IF Truthy(a) THEN a ELSE b

\* truth value of the branch: None and the empty string are false
BranchTruthy(b) == b # NoBranch /\ b # <<>>

Whitespace == {" ", "\n", "\t", "\r"}

RECURSIVE LStrip(_)
LStrip(s) == IF s # <<>> /\ Head(s) \in Whitespace THEN LStrip(Tail(s)) ELSE s

RECURSIVE RStrip(_)
RStrip(s) ==
    IF s # <<>> /\ s[Len(s)] \in Whitespace THEN RStrip(SubSeq(s, 1, Len(s) - 1)) ELSE s

\* str.strip()
Strip(s) == RStrip(LStrip(s))

\* str.startswith(prefix): "true", "false", or "raise" (AttributeError on None)
StartsWith(s, prefix) ==
    IF s = NoBranch THEN "raise"
    ELSE IF Len(s) >= Len(prefix) /\ SubSeq(s, 1, Len(prefix)) = prefix THEN "true"
    ELSE "false"

---------------------------------------------------------------------------
(* Branch names *)

MASTER      == <<"m","a","s","t","e","r">>
BETA        == <<"b","e","t","a">>
DEV         == <<"d","e","v">>
EDITOR_DEV  == <<"e","d","i","t","o","r","-","d","e","v">>
DEFEDIT_PREFIX == <<"D","E","F","E","D","I","T","-">>
HEAD_NAME   == <<"H","E","A","D">>

DEFEDIT_1234 == DEFEDIT_PREFIX \o <<"1","2","3","4">>
DEFEDIT_NODASH == <<"D","E","F","E","D","I","T">>
DEFEDIT_LOWER == <<"d","e","f","e","d","i","t","-","1">>
RELEASE_FOO == <<"r","e","l","e","a","s","e","/","f","o","o">>
MASTER_UPPER == <<"M","a","s","t","e","r">>
DEVEL       == <<"d","e","v","e","l">>
BETA_2      == <<"b","e","t","a","-","2">>
X_DEFEDIT   == <<"x","-">> \o DEFEDIT_PREFIX \o <<"1">>
COMMIT_HASH == <<"3","f","a","9","c","0","d","e">>
NL          == <<"\n">>

---------------------------------------------------------------------------
(* ci.py main(), lines 332-369: the branch configuration *)

\* the test of the fifth branch of the if chain
\* variant: the test without its 'branch and' guard
IsDefeditMutNoGuard(b) == StartsWith(b, DEFEDIT_PREFIX)

IsDefedit(b) == IF BranchTruthy(b) THEN StartsWith(b, DEFEDIT_PREFIX) ELSE "false"

Cfg(ec, edc, rc, mr, ea, st) ==
    [engine_channel |-> ec, editor_channel |-> edc, release_channel |-> rc,
     make_release |-> mr, engine_artifacts |-> ea, skip_editor_tests |-> st,
     raised |-> FALSE]

\* the configuration left when the if chain raises
Raised == [engine_channel |-> NONE, editor_channel |-> NONE, release_channel |-> NONE,
           make_release |-> FALSE, engine_artifacts |-> NONE, skip_editor_tests |-> FALSE,
           raised |-> TRUE]

\* variant: the per-branch default is taken even when an override is given
ConfigureMutOverrideLoses(b, override) ==
    IF b = MASTER THEN Cfg("stable", "editor-alpha", "editor-stable", FALSE, "archived", FALSE)
    ELSE IF b = BETA THEN Cfg("beta", "beta", "beta", TRUE, "archived", FALSE)
    ELSE IF b = DEV THEN Cfg("alpha", "alpha", "alpha", TRUE, "archived", FALSE)
    ELSE IF b = EDITOR_DEV THEN Cfg(NONE, "editor-alpha", "editor-alpha", TRUE, override, FALSE)
    ELSE IF IsDefedit(b) = "raise" THEN Raised
    ELSE IF IsDefedit(b) = "true" THEN Cfg(NONE, NONE, NONE, FALSE, "archived-stable", FALSE)
    ELSE Cfg("dev", NONE, NONE, FALSE, "archived", TRUE)

\* variant: the else row releases and runs the editor tests
ConfigureMutDevRelease(b, override) ==
    IF b = MASTER THEN
        Cfg("stable", "editor-alpha", "editor-stable", FALSE, PyOr(override, "archived"), FALSE)
    ELSE IF b = BETA THEN
        Cfg("beta", "beta", "beta", TRUE, PyOr(override, "archived"), FALSE)
    ELSE IF b = DEV THEN
        Cfg("alpha", "alpha", "alpha", TRUE, PyOr(override, "archived"), FALSE)
    ELSE IF b = EDITOR_DEV THEN
        Cfg(NONE, "editor-alpha", "editor-alpha", TRUE, override, FALSE)
    ELSE IF IsDefedit(b) = "raise" THEN Raised
    ELSE IF IsDefedit(b) = "true" THEN
        Cfg(NONE, NONE, NONE, FALSE, PyOr(override, "archived-stable"), FALSE)
    ELSE
        Cfg("dev", NONE, "dev", TRUE, PyOr(override, "archived"), FALSE)

\* release_channel = None; skip_editor_tests = False; if branch == "master": ...
Configure(b, override) ==
    IF b = MASTER THEN
        Cfg("stable", "editor-alpha", "editor-stable", FALSE, PyOr(override, "archived"), FALSE)
    ELSE IF b = BETA THEN
        Cfg("beta", "beta", "beta", TRUE, PyOr(override, "archived"), FALSE)
    ELSE IF b = DEV THEN
        Cfg("alpha", "alpha", "alpha", TRUE, PyOr(override, "archived"), FALSE)
    ELSE IF b = EDITOR_DEV THEN
        Cfg(NONE, "editor-alpha", "editor-alpha", TRUE, override, FALSE)
    ELSE IF IsDefedit(b) = "raise" THEN Raised
    ELSE IF IsDefedit(b) = "true" THEN
        Cfg(NONE, NONE, NONE, FALSE, PyOr(override, "archived-stable"), FALSE)
    ELSE
        Cfg("dev", NONE, NONE, FALSE, PyOr(override, "archived"), TRUE)

\* main's locals before the if chain has run
Unconfigured == [engine_channel |-> NONE, editor_channel |-> NONE, release_channel |-> NONE,
                 make_release |-> FALSE, engine_artifacts |-> NONE,
                 skip_editor_tests |-> FALSE, raised |-> FALSE]


---------------------------------------------------------------------------
(* ci.py: the external calls.  A call is recorded by what decides its     *)
(* effect here: the program, the build.py targets, and the --platform,    *)
(* --channel and --engine-artifacts options (NONE: option not passed).    *)
(* The boolean pass-through flags (--with-asan, --skip-docs, ...) only    *)
(* add words to the command line of build_engine and are left out.        *)

PLATFORMS_DESKTOP == <<"x86_64-linux", "x86_64-win32", "x86_64-darwin">>

\* call(): line 39, 'if process.wait() != 0 and failonerror: exit(1)'
\* variant: the exit status is never looked at
CallExitsMutNeverFatal(status, failonerror) == FALSE

\* variant: failonerror is not consulted
CallExitsMutIgnoresOptOut(status, failonerror) == status # 0

CallExits(status, failonerror) == status # 0 /\ failonerror

\* an option that is appended only when its value is true
Opt(x) == IF Truthy(x) THEN x ELSE NONE

Ext(prog, targets, platform, channel, artifacts, failonerror) ==
    [prog |-> prog, targets |-> targets, platform |-> platform, channel |-> Opt(channel),
     artifacts |-> Opt(artifacts), skip_tests |-> FALSE, failonerror |-> failonerror]

Sh(prog, what) == Ext(prog, <<what>>, NONE, NONE, NONE, TRUE)

BuildPy(targets, platform, channel, artifacts) ==
    Ext("scripts/build.py", targets, platform, channel, artifacts, TRUE)

platform_from_host(system) ==
    IF system = "Linux" THEN "x86_64-linux"
    ELSE IF system = "Darwin" THEN "x86_64-darwin"
    ELSE "x86_64-win32"

InDesktop(p) == \E i \in 1..Len(PLATFORMS_DESKTOP) : PLATFORMS_DESKTOP[i] = p

\* platforms = PLATFORMS_DESKTOP if platform is None else [platform]
PlatformsFor(platform) == IF platform = NONE THEN PLATFORMS_DESKTOP ELSE <<platform>>

build_engine(platform, channel) ==
    << BuildPy(<<"distclean", "install_ext">>
               \o (IF platform \in {"js-web", "wasm-web"} THEN <<"install_ems">> ELSE <<>>)
               \o <<"build_engine">>,
               platform, channel, NONE) >>

build_editor2(system, channel, engine_artifacts, skip_tests) ==
    LET host == platform_from_host(system)
        B(targets, p) == [BuildPy(targets, p, channel, engine_artifacts)
                            EXCEPT !.skip_tests = skip_tests]
    IN
    IF ~InDesktop(host) THEN <<>>
    ELSE << B(<<"distclean", "install_ext", "build_editor2">>, host) >>
         \o [i \in 1..Len(PLATFORMS_DESKTOP) |-> B(<<"bundle_editor2">>, PLATFORMS_DESKTOP[i])]

download_editor2(channel, platform) ==
    LET ps == PlatformsFor(platform) IN
    [i \in 1..Len(ps) |-> BuildPy(<<"download_editor2">>, ps[i], channel, NONE)]

notarize_editor2 ==
    << BuildPy(<<"notarize_editor2">>, "x86_64-darwin", NONE, NONE) >>

archive_editor2(channel, engine_artifacts, platform) ==
    LET ps == PlatformsFor(platform) IN
    [i \in 1..Len(ps) |-> BuildPy(<<"archive_editor2">>, ps[i], channel, engine_artifacts)]

build_bob(channel) ==
    << BuildPy(<<"distclean", "install_ext", "sync_archive", "build_bob", "archive_bob">>,
               NONE, channel, NONE) >>

release(channel) == << BuildPy(<<"release">>, NONE, channel, NONE) >>

build_sdk(channel) == << BuildPy(<<"build_sdk">>, NONE, channel, NONE) >>

smoke_test == << BuildPy(<<"distclean", "install_ext", "smoke_test">>, NONE, NONE, NONE) >>

\* the file written and removed between the calls is taken to succeed
setup_keychain ==
    << Sh("security", "create-keychain"), Sh("security", "default-keychain"),
       Sh("security", "unlock-keychain"), Sh("security", "import"),
       Sh("security", "set-key-partition-list"), Sh("security", "set-keychain-settings"),
       Sh("security", "list-keychains") >>

install(system, keychain_cert) ==
    IF system = "Linux" THEN
        << Sh("sudo", "add-apt-repository"),
           Ext("sudo", <<"apt-get update">>, NONE, NONE, NONE, FALSE),
           Sh("sudo", "debconf maxdownloads"), Sh("sudo", "debconf dlflag"),
           Sh("sudo", "debconf aptmanager"), Sh("sudo", "apt-get install apt-fast"),
           Sh("sudo", "apt-get install software-properties-common"),
           Sh("sudo", "apt-fast install packages") >>
    ELSE IF system = "Darwin" THEN
        (IF Truthy(keychain_cert) THEN setup_keychain ELSE <<>>)
    ELSE <<>>

GitAbbrevRef == Sh("git", "rev-parse --abbrev-ref HEAD")
GitRevParse  == Sh("git", "rev-parse HEAD")

KnownCommands == {"engine", "build-editor", "download-editor", "notarize-editor",
                  "archive-editor", "bob", "sdk", "smoke", "install", "release"}

NoPlatformError == "No --platform specified."
NoNotarizationError == "No notarization username or password"

---------------------------------------------------------------------------
(* ci.py: one run of main() *)

MaxCmds == 2

CommandNames == KnownCommands \cup {"deploy"}

CommandLists == UNION {[1..n -> CommandNames] : n \in 1..MaxCmds}

\* what 'git rev-parse --abbrev-ref HEAD' prints: a branch name, or HEAD when detached
\* (git.hash is the commit; 'git rev-parse HEAD' prints it followed by a newline)
GitOutputs == {MASTER \o NL, BETA \o NL, DEV \o NL, EDITOR_DEV \o NL, DEFEDIT_1234 \o NL,
               RELEASE_FOO \o NL, HEAD_NAME \o NL}

Platforms == {NONE, "", "x86_64-linux"}
Systems == {"Linux", "Darwin", "Windows"}
Secrets == {NONE, "secret"}

InitCI ==
    /\ args \in [commands : CommandLists, platform : Platforms, engine_artifacts : {NONE},
                 keychain_cert : Secrets, notarization_username : Secrets,
                 notarization_password : {"secret"}, system : Systems]
    /\ git \in [symbolic : GitOutputs, hash : {COMMIT_HASH}]
    /\ pc = "get_branch"
    /\ branch = NoBranch
    /\ config = Unconfigured
    /\ idx = 0
    /\ pending = <<>>
    /\ spawned = <<>>
    /\ exit_code = 0
    /\ error = NONE
    /\ printed = <<>>

Started(c, status) ==
    [call |-> c, status |-> status, at |-> idx]

ExitStatuses == {0, 1}

\* exit(1), or an exception nobody catches
Die(msg) ==
    /\ pc' = "exited"
    /\ exit_code' = 1
    /\ error' = msg

\* the loop goes to its next command, or main returns
NextCommand ==
    /\ idx' = idx + 1
    /\ pc' = IF idx + 1 > Len(args.commands) THEN "done" ELSE "dispatch"
    /\ pending' = <<>>

\* get_branch(), line 304
GetBranch ==
    /\ pc = "get_branch"
    /\ \E status \in ExitStatuses :
        /\ spawned' = Append(spawned, Started(GitAbbrevRef, status))
        /\ IF CallExits(status, GitAbbrevRef.failonerror)
           THEN Die(NONE) /\ UNCHANGED branch
           ELSE /\ branch' = Strip(git.symbolic)
                /\ pc' = IF Strip(git.symbolic) = HEAD_NAME THEN "get_branch_head" ELSE "configure"
                /\ UNCHANGED <<exit_code, error>>
    /\ UNCHANGED <<r_vars, tg_vars, args, git, config, idx, pending, printed>>

\* variant: the output of the second git command is dropped
GetBranchHeadMutKeepsHead ==
    /\ pc = "get_branch_head"
    /\ \E status \in ExitStatuses :
        /\ spawned' = Append(spawned, Started(GitRevParse, status))
        /\ IF CallExits(status, GitRevParse.failonerror)
           THEN Die(NONE) /\ UNCHANGED branch
           ELSE /\ branch' = branch
                /\ pc' = "configure"
                /\ UNCHANGED <<exit_code, error>>
    /\ UNCHANGED <<r_vars, tg_vars, args, git, config, idx, pending, printed>>

\* get_branch(), lines 305-307: the detached HEAD
GetBranchHead ==
    /\ pc = "get_branch_head"
    /\ \E status \in ExitStatuses :
        /\ spawned' = Append(spawned, Started(GitRevParse, status))
        /\ IF CallExits(status, GitRevParse.failonerror)
           THEN Die(NONE) /\ UNCHANGED branch
           ELSE /\ branch' = git.hash \o NL
                /\ pc' = "configure"
                /\ UNCHANGED <<exit_code, error>>
    /\ UNCHANGED <<r_vars, tg_vars, args, git, config, idx, pending, printed>>

\* main(), lines 332-371
ConfigureBranch ==
    /\ pc = "configure"
    /\ config' = Configure(branch, args.engine_artifacts)
    /\ IF Configure(branch, args.engine_artifacts).raised
       THEN Die("AttributeError") /\ UNCHANGED <<idx, pending>>
       ELSE NextCommand /\ UNCHANGED <<exit_code, error>>
    /\ UNCHANGED <<r_vars, tg_vars, args, git, branch, spawned, printed>>

\* a handler that makes the calls cs, in order
Run(cs) ==
    /\ IF cs = <<>>
       THEN NextCommand
       ELSE pending' = cs /\ pc' = "call" /\ UNCHANGED idx
    /\ UNCHANGED <<exit_code, error, printed>>

Say(msg) == printed' = Append(printed, [msg |-> msg, at |-> idx])

Dispatching(name) ==
    /\ pc = "dispatch"
    /\ args.commands[idx] = name


\* variant: no platform check before build_engine
DispatchEngineMutNoCheck ==
    /\ Dispatching("engine")
    /\ Run(build_engine(args.platform, config.engine_channel))
    /\ UNCHANGED <<r_vars, tg_vars, args, git, branch, config, spawned>>

\* main(), lines 375-387
DispatchEngine ==
    /\ Dispatching("engine")
    /\ IF ~Truthy(args.platform)
       THEN Die(NoPlatformError) /\ UNCHANGED <<idx, pending, printed>>
       ELSE Run(build_engine(args.platform, config.engine_channel))
    /\ UNCHANGED <<r_vars, tg_vars, args, git, branch, config, spawned>>

\* main(), lines 388-389
DispatchBuildEditor ==
    /\ Dispatching("build-editor")
    /\ Run(build_editor2(args.system, config.editor_channel, config.engine_artifacts,
                         config.skip_editor_tests))
    /\ UNCHANGED <<r_vars, tg_vars, args, git, branch, config, spawned>>

\* main(), lines 390-391
DispatchDownloadEditor ==
    /\ Dispatching("download-editor")
    /\ Run(download_editor2(config.editor_channel, args.platform))
    /\ UNCHANGED <<r_vars, tg_vars, args, git, branch, config, spawned>>

\* main(), lines 392-396, and notarize_editor2(), lines 227-229
DispatchNotarizeEditor ==
    /\ Dispatching("notarize-editor")
    /\ IF ~Truthy(args.notarization_username) \/ ~Truthy(args.notarization_password)
       THEN /\ Say(NoNotarizationError)
            /\ Die(NoNotarizationError)
            /\ UNCHANGED <<idx, pending>>
       ELSE Run(notarize_editor2)
    /\ UNCHANGED <<r_vars, tg_vars, args, git, branch, config, spawned>>

\* main(), lines 397-398
DispatchArchiveEditor ==
    /\ Dispatching("archive-editor")
    /\ Run(archive_editor2(config.editor_channel, config.engine_artifacts, args.platform))
    /\ UNCHANGED <<r_vars, tg_vars, args, git, branch, config, spawned>>

\* main(), lines 399-400
DispatchBob ==
    /\ Dispatching("bob")
    /\ Run(build_bob(config.engine_channel))
    /\ UNCHANGED <<r_vars, tg_vars, args, git, branch, config, spawned>>

\* main(), lines 401-402
DispatchSdk ==
    /\ Dispatching("sdk")
    /\ Run(build_sdk(config.engine_channel))
    /\ UNCHANGED <<r_vars, tg_vars, args, git, branch, config, spawned>>

\* main(), lines 403-404
DispatchSmoke ==
    /\ Dispatching("smoke")
    /\ Run(smoke_test)
    /\ UNCHANGED <<r_vars, tg_vars, args, git, branch, config, spawned>>

\* main(), lines 405-406
DispatchInstall ==
    /\ Dispatching("install")
    /\ Run(install(args.system, args.keychain_cert))
    /\ UNCHANGED <<r_vars, tg_vars, args, git, branch, config, spawned>>

\* variant: make_release is not consulted
DispatchReleaseMutAlways ==
    /\ Dispatching("release")
    /\ Run(release(config.release_channel))
    /\ UNCHANGED <<r_vars, tg_vars, args, git, branch, config, spawned>>

\* main(), lines 407-411
DispatchRelease ==
    /\ Dispatching("release")
    /\ IF config.make_release
       THEN Run(release(config.release_channel))
       ELSE /\ Say("not configured for automatic release")
            /\ NextCommand
            /\ UNCHANGED <<exit_code, error>>
    /\ UNCHANGED <<r_vars, tg_vars, args, git, branch, config, spawned>>

\* variant: an unknown command ends the run
DispatchUnknownMutAborts ==
    /\ pc = "dispatch"
    /\ args.commands[idx] \notin KnownCommands
    /\ Say("Unknown command")
    /\ Die("Unknown command")
    /\ UNCHANGED <<idx, pending>>
    /\ UNCHANGED <<r_vars, tg_vars, args, git, branch, config, spawned>>

\* main(), lines 412-413
DispatchUnknown ==
    /\ pc = "dispatch"
    /\ args.commands[idx] \notin KnownCommands
    /\ Say("Unknown command")
    /\ NextCommand
    /\ UNCHANGED <<exit_code, error>>
    /\ UNCHANGED <<r_vars, tg_vars, args, git, branch, config, spawned>>

\* call(), lines 26-42, for the next call of the running handler
Call ==
    /\ pc = "call"
    /\ \E status \in ExitStatuses :
        /\ spawned' = Append(spawned, Started(Head(pending), status))
        /\ IF CallExits(status, Head(pending).failonerror)
           THEN Die(NONE) /\ UNCHANGED <<idx, pending>>
           ELSE /\ IF Tail(pending) = <<>>
                   THEN NextCommand
                   ELSE pending' = Tail(pending) /\ UNCHANGED <<pc, idx>>
                /\ UNCHANGED <<exit_code, error>>
    /\ UNCHANGED <<r_vars, tg_vars, args, git, branch, config, printed>>

NextCI ==
    \/ GetBranch
    \/ GetBranchHead
    \/ ConfigureBranch
    \/ DispatchEngine
    \/ DispatchBuildEditor
    \/ DispatchDownloadEditor
    \/ DispatchNotarizeEditor
    \/ DispatchArchiveEditor
    \/ DispatchBob
    \/ DispatchSdk
    \/ DispatchSmoke
    \/ DispatchInstall
    \/ DispatchRelease
    \/ DispatchUnknown
    \/ Call

---------------------------------------------------------------------------
(* The branch configuration applied to sampled inputs *)

BranchSamples == {MASTER, BETA, DEV, EDITOR_DEV, DEFEDIT_1234, DEFEDIT_PREFIX,
                  DEFEDIT_NODASH, DEFEDIT_LOWER, RELEASE_FOO, MASTER_UPPER, DEVEL, BETA_2,
                  X_DEFEDIT, COMMIT_HASH \o NL, HEAD_NAME, <<>>, NoBranch}

OverrideSamples == {NONE, "", "archived", "archived-stable", "local"}

NoConfig == [Unconfigured EXCEPT !.engine_channel = "<unset>"]

InitResolve ==
    /\ r_branch \in BranchSamples
    /\ r_override \in OverrideSamples
    /\ r_config = NoConfig

ResolveBranch ==
    /\ r_config = NoConfig
    /\ r_config' = Configure(r_branch, r_override)
    /\ UNCHANGED <<r_branch, r_override, ci_vars, tg_vars>>

---------------------------------------------------------------------------
(* waf_resource.py: the 'barchive' feature of a task generator.  A task is *)
(* named by its position in self.tasks; a node by its file name.           *)

MaxTasks == 2

Attrs == {"source_root", "resource_name", "use_compression"}

\* what the tasks made by apply_core may declare as outputs
CoreOutputs == {<<>>, <<"a.texturec">>, <<"b.luac">>, <<"a.texturec", "b.luac">>}

NewTask(type) ==
    [type |-> type, inputs |-> <<>>, outputs |-> <<>>, run_after |-> <<>>,
     root |-> <<>>, output |-> <<>>, flags |-> <<>>]

CoreTasks == UNION {[1..n -> {[NewTask("core") EXCEPT !.outputs = o] : o \in CoreOutputs}]
                        : n \in 0..MaxTasks}

ARCHIVE_EXTENSIONS == <<"dmanifest", "arci", "arcd", "public", "manifest_hash">>

\* the task generator as the wscript made it: 'has' are the attributes it gave
InitTG ==
    /\ tg \in [has : SUBSET Attrs, source_root : {"content"}, resource_name : {"game"},
               use_compression : BOOLEAN, tasks : {<<>>}]
    /\ tg_pc = "before"
    /\ tg_errors = <<>>

\* Utils.def_attrs: the default only for an attribute the generator lacks
DefAttr(g, attr, default) == IF attr \in g.has THEN g[attr] ELSE default

\* apply_barchive_before, lines 24-29
ApplyBarchiveBefore ==
    /\ tg_pc = "before"
    /\ tg' = [tg EXCEPT !.source_root = DefAttr(tg, "source_root", NONE),
                        !.resource_name = DefAttr(tg, "resource_name", NONE),
                        !.use_compression = DefAttr(tg, "use_compression", FALSE),
                        !.has = Attrs]
    /\ tg_pc' = "core"
    /\ UNCHANGED <<tg_errors, ci_vars, r_vars>>

\* apply_core runs between the two methods and makes the generator's other tasks
ApplyCore ==
    /\ tg_pc = "core"
    /\ \E ts \in CoreTasks : tg' = [tg EXCEPT !.tasks = ts]
    /\ tg_pc' = "after"
    /\ UNCHANGED <<tg_errors, ci_vars, r_vars>>

\* self.create_task(name): the new task joins self.tasks
create_task(tasks, type) == Append(tasks, NewTask(type))

RECURSIVE Flatten(_)
Flatten(ss) == IF ss = <<>> THEN <<>> ELSE Head(ss) \o Flatten(Tail(ss))

\* the positions in tasks, in order, of the tasks that are not the builder
\* variant: the loop starts at the second task
OthersMutSkipsFirst(tasks, builder) ==
    SelectSeq([i \in 1..Len(tasks) |-> i], LAMBDA i : i # builder /\ i # 1)

Others(tasks, builder) ==
    SelectSeq([i \in 1..Len(tasks) |-> i], LAMBDA i : i # builder)

\* lines 41-45: run after, and take the outputs of, every other task
WireBuilder(tasks, builder) ==
    LET os == Others(tasks, builder) IN
    [tasks EXCEPT ![builder].run_after = @ \o os,
                  ![builder].inputs = Flatten([k \in 1..Len(os) |-> tasks[os[k]].outputs])]

\* lines 47-51
BuilderOutputs(resource_name) ==
    [k \in 1..Len(ARCHIVE_EXTENSIONS) |-> <<resource_name, ARCHIVE_EXTENSIONS[k]>>]

\* apply_barchive_after, lines 31-63
ApplyBarchiveAfter ==
    /\ tg_pc = "after"
    /\ IF tg.source_root = NONE
       THEN /\ tg_errors' = Append(tg_errors, "source_root is not specified!")
            /\ UNCHANGED tg
       ELSE IF tg.resource_name = NONE
       THEN /\ tg_errors' = Append(tg_errors, "resource_name is not specified!")
            /\ UNCHANGED tg
       ELSE LET made == create_task(tg.tasks, "resource_archive")
                builder == Len(made)
                wired == WireBuilder(made, builder)
            IN /\ tg' = [tg EXCEPT !.tasks =
                            [wired EXCEPT ![builder].outputs = BuilderOutputs(tg.resource_name),
                                          ![builder].root = <<tg.source_root>>,
                                          ![builder].output = <<tg.resource_name>>,
                                          ![builder].flags =
                                              IF tg.use_compression THEN <<"-m", "-c">> ELSE <<"-m">>]]
               /\ UNCHANGED tg_errors
    /\ tg_pc' = "applied"
    /\ UNCHANGED <<ci_vars, r_vars>>

---------------------------------------------------------------------------
(* Idle values of the parts a specification does not run *)

IdleCI ==
    /\ args = [commands |-> <<"smoke">>, platform |-> NONE, engine_artifacts |-> NONE,
               keychain_cert |-> NONE, notarization_username |-> NONE,
               notarization_password |-> NONE, system |-> "Linux"]
    /\ git = [symbolic |-> MASTER \o NL, hash |-> COMMIT_HASH]
    /\ pc = "idle"
    /\ branch = NoBranch
    /\ config = Unconfigured
    /\ idx = 0
    /\ pending = <<>>
    /\ spawned = <<>>
    /\ exit_code = 0
    /\ error = NONE
    /\ printed = <<>>

IdleResolve ==
    /\ r_branch = NoBranch
    /\ r_override = NONE
    /\ r_config = NoConfig

IdleTG ==
    /\ tg = [has |-> {}, source_root |-> NONE, resource_name |-> NONE,
             use_compression |-> FALSE, tasks |-> <<>>]
    /\ tg_pc = "idle"
    /\ tg_errors = <<>>

Init == InitCI /\ IdleResolve /\ IdleTG

Next == NextCI

Spec == Init /\ [][Next]_vars

InitR == InitResolve /\ IdleCI /\ IdleTG

NextR == ResolveBranch

SpecResolve == InitR /\ [][NextR]_vars

InitA == InitTG /\ IdleCI /\ IdleResolve

NextA ==
    \/ ApplyBarchiveBefore
    \/ ApplyCore
    \/ ApplyBarchiveAfter

SpecArchive == InitA /\ [][NextA]_vars

---------------------------------------------------------------------------
(* Properties of the branch configuration (SpecResolve) *)

Row(ec, edc, rc, mr, ea, st) ==
    [engine_channel |-> ec, editor_channel |-> edc, release_channel |-> rc,
     make_release |-> mr, engine_artifacts |-> ea, skip_editor_tests |-> st,
     raised |-> FALSE]

DefeditSamples == {DEFEDIT_1234, DEFEDIT_PREFIX}

UnmatchedSamples == BranchSamples \ ({MASTER, BETA, DEV, EDITOR_DEV} \cup DefeditSamples)

\* the table of the six branch categories
TableRow(b) ==
    CASE b = MASTER     -> Row("stable", "editor-alpha", "editor-stable", FALSE, "archived", FALSE)
      [] b = BETA       -> Row("beta", "beta", "beta", TRUE, "archived", FALSE)
      [] b = DEV        -> Row("alpha", "alpha", "alpha", TRUE, "archived", FALSE)
      [] b = EDITOR_DEV -> Row(NONE, "editor-alpha", "editor-alpha", TRUE, NONE, FALSE)
      [] b \in DefeditSamples -> Row(NONE, NONE, NONE, FALSE, "archived-stable", FALSE)
      [] OTHER          -> Row("dev", NONE, NONE, FALSE, "archived", TRUE)

Resolved == r_config # NoConfig

\* C1: with no --engine-artifacts override, the configuration resolved for a branch
\* of each of the six categories is exactly the row of the table.
C1_TableRows ==
    (Resolved /\ r_override = NONE) => r_config = TableRow(r_branch)

C1_Witness ==
    /\ Resolved /\ r_override = NONE /\ r_branch = DEFEDIT_1234
    /\ r_config.engine_artifacts = "archived-stable"

C3_DefaultRowTotal ==
    (Resolved /\ r_branch \in UnmatchedSamples) =>
        /\ ~r_config.raised
        /\ r_config.make_release = FALSE
        /\ r_config.skip_editor_tests = TRUE
        /\ r_config.engine_channel = "dev"
        /\ r_config.editor_channel = NONE
        /\ r_config.release_channel = NONE

C3_Witness ==
    /\ Resolved /\ r_branch = NoBranch
    /\ r_config.skip_editor_tests /\ ~r_config.raised

---------------------------------------------------------------------------
(* Properties of a run of main (Spec) *)

Terminated == pc \in {"done", "exited"}

Commands == args.commands

SpawnedIdx == 1..Len(spawned)

\* C4 as stated: when the missing-platform error is raised no external process has
\* been started, the branch lookup and the earlier commands included.
C4_NothingSpawnedBeforeAbort ==
    (pc = "exited" /\ error = NoPlatformError) => spawned = <<>>

\* C4 amended: the missing-platform error is raised when 'engine' is dispatched,
\* after the branch lookup and the commands listed before it have run; no process
\* of the engine command or of a later command is ever started.
C4_AbortBeforeEngineProcess ==
    /\ (pc = "exited" /\ error = NoPlatformError) =>
          /\ exit_code = 1
          /\ Commands[idx] = "engine" /\ ~Truthy(args.platform)
          /\ Len(spawned) >= 1
          /\ \A i \in SpawnedIdx : spawned[i].at < idx
    /\ \A j \in 1..Len(Commands) :
          (Commands[j] = "engine" /\ ~Truthy(args.platform)) =>
              /\ idx <= j
              /\ \A i \in SpawnedIdx : spawned[i].at < j
              /\ (idx = j /\ pc # "dispatch") => (pc = "exited" /\ error = NoPlatformError)

C4_Witness ==
    /\ pc = "exited" /\ error = NoPlatformError
    /\ idx = 2 /\ Commands[1] = "smoke"
    /\ \E i \in SpawnedIdx : spawned[i].at = 1

IsRelease(s) == s.call.targets = <<"release">>

\* C5: 'release' on a branch with make_release false starts no process, leaves the
\* exit status alone and lets the loop go on; a release process is started only for
\* the 'release' command of a branch with make_release, with its release_channel.
C5_ReleaseGated ==
    /\ [](\A i \in SpawnedIdx :
            IsRelease(spawned[i]) =>
                /\ config.make_release
                /\ Commands[spawned[i].at] = "release"
                /\ spawned[i].call.channel = config.release_channel)
    /\ [][(pc = "dispatch" /\ Commands[idx] = "release" /\ ~config.make_release) =>
            /\ spawned' = spawned
            /\ exit_code' = exit_code /\ error' = error
            /\ idx' = idx + 1
            /\ pc' = IF idx + 1 > Len(Commands) THEN "done" ELSE "dispatch"]_vars

C5_Witness ==
    /\ Len(printed) = 1 /\ printed[1].at = 1
    /\ printed[1].msg = "not configured for automatic release"
    /\ pc = "done" /\ exit_code = 0
    /\ \E i \in SpawnedIdx : spawned[i].at = 2

AnyNonZero == \E i \in SpawnedIdx : spawned[i].status # 0

FatalNonZero == \E i \in SpawnedIdx : spawned[i].status # 0 /\ spawned[i].call.failonerror

\* the command the loop is at lacks an argument it requires
PreconditionMissing ==
    /\ idx \in 1..Len(Commands)
    /\ \/ Commands[idx] = "engine" /\ ~Truthy(args.platform)
       \/ /\ Commands[idx] = "notarize-editor"
          /\ ~Truthy(args.notarization_username) \/ ~Truthy(args.notarization_password)

C7_UnknownSkipped ==
    /\ [](\A i \in SpawnedIdx :
            /\ spawned[i].at >= 1 => Commands[spawned[i].at] \in KnownCommands
            /\ \A k \in SpawnedIdx : k < i => spawned[k].at <= spawned[i].at)
    /\ [][(pc = "dispatch" /\ Commands[idx] \notin KnownCommands) =>
            /\ spawned' = spawned
            /\ exit_code' = exit_code /\ error' = error
            /\ printed' = Append(printed, [msg |-> "Unknown command", at |-> idx])
            /\ idx' = idx + 1
            /\ pc' = IF idx + 1 > Len(Commands) THEN "done" ELSE "dispatch"]_vars

C7_Witness ==
    /\ Len(Commands) = 2 /\ Commands[1] \notin KnownCommands
    /\ \E i \in SpawnedIdx : spawned[i].at = 2
    /\ pc = "done"

\* C8: a non-zero exit of a failonerror = True call ends the process at once with
\* status 1, so it is the last process ever started; after a non-zero exit of a
\* failonerror = False call the run goes on.
C8_FatalCallIsLast ==
    \A i \in SpawnedIdx :
        spawned[i].status # 0 =>
            IF spawned[i].call.failonerror
            THEN i = Len(spawned) /\ pc = "exited" /\ exit_code = 1
            ELSE pc # "exited" \/ i < Len(spawned)

C8_Witness ==
    /\ pc = "exited" /\ exit_code = 1
    /\ Len(spawned) >= 3
    /\ spawned[Len(spawned)].status # 0 /\ spawned[Len(spawned)].call.failonerror
    /\ \E i \in SpawnedIdx : i < Len(spawned) /\ spawned[i].status # 0

Detached == Strip(git.symbolic) = HEAD_NAME

---------------------------------------------------------------------------
(* Properties of the 'barchive' task generator (SpecArchive) *)

Builders == {i \in 1..Len(tg.tasks) : tg.tasks[i].type = "resource_archive"}

RECURSIVE OutputsUpTo(_, _)
OutputsUpTo(tasks, k) ==
    IF k = 0 THEN <<>> ELSE OutputsUpTo(tasks, k - 1) \o tasks[k].outputs

\* C10: a resource_archive task is made only when source_root and resource_name
\* are both set (else one error and no task); it runs after every other task of the
\* generator, not after itself, and its inputs are the other tasks' outputs in task
\* order.
C10_BuilderWiring ==
    LET n == Len(tg.tasks) IN
    /\ tg_pc # "applied" => Builders = {}
    /\ (tg_pc = "applied" /\ (tg.source_root = NONE \/ tg.resource_name = NONE)) =>
          /\ Builders = {}
          /\ Len(tg_errors) = 1
    /\ (tg_pc = "applied" /\ tg.source_root # NONE /\ tg.resource_name # NONE) =>
          /\ Builders = {n}
          /\ tg_errors = <<>>
          /\ tg.tasks[n].run_after = [i \in 1..(n - 1) |-> i]
          /\ tg.tasks[n].inputs = OutputsUpTo(tg.tasks, n - 1)

C10_Witness ==
    /\ tg_pc = "applied"
    /\ Len(tg.tasks) = 3 /\ Builders = {3}
    /\ Len(tg.tasks[3].inputs) = 3
    /\ tg.tasks[3].run_after = <<1, 2>>

=============================================================================
